---- MODULE Spec2Model ----
(***************************************************************************)
(* Sloka API (index.js, models/Quotes.js): the read handlers over the      *)
(* quote collection, the selection arithmetic (random offset, day of year, *)
(* pagination bounds, search-term escaping), the two rate limiters and the *)
(* global error handler.                                                   *)
(*                                                                         *)
(* Strings the code inspects character by character (identifiers, query    *)
(* values, source labels) are sequences of one-character strings.          *)
(* Time is counted in seconds instead of milliseconds.                     *)
(*                                                                         *)
(* The later sections model the process around the handlers: connectDB and *)
(* the two startup branches, gracefulShutdown, and the seeding script      *)
(* (scripts/seed.js) running against the same collection.                  *)
(***************************************************************************)
EXTENDS Integers, Sequences, FiniteSets, TLC

VARIABLES
    store,      \* the quotes collection, in the store's enumeration order
    nodeEnv,    \* process.env.NODE_ENV
    req,        \* the request being handled and the handler's locals
    resp,       \* the response sent for req (status 0: none yet)
    calls,      \* the store calls issued on behalf of req, in order
    clock,      \* the local wall clock, the time zone and the year's kind
    seen,       \* the first daily answer computed on the current local date
    apiHits,    \* limiter: hits per client address in its current window
    quoteHits,  \* quoteLimiter: hits per client address in its current window
    sent,       \* quote requests sent per client address in the quote window
    walk,       \* a client paging through GET /api/quotes
    proc,       \* the server process: startup, connection, signals, exit
    loader      \* the seeding script's run (scripts/seed.js)

vars == <<store, nodeEnv, req, resp, calls, clock, seen, apiHits, quoteHits, sent, walk,
          proc, loader>>

----------------------------------------------------------------------------
(* Bounds of the model *)

MaxStore == 3       \* records in the collection
RandDenom == 4      \* Math.random() is k / RandDenom for some k in 0..RandDenom-1
MaxSourceLen == 2   \* characters of a search term
MaxQueryLen == 2    \* characters of a page or limit query value

----------------------------------------------------------------------------
(* Generic helpers *)

Rep(c, n) == [i \in 1..n |-> c]

SeqsUpTo(S, n) == UNION {[1..k -> S] : k \in 0..n}

Min(a, b) == IF a < b THEN a ELSE b

Max(a, b) == IF a > b THEN a ELSE b

\* s.slice(from - 1): the suffix of s starting at index from
Drop(s, k) == [i \in 1..(Len(s) - k) |-> s[i + k]]

Take(s, k) == [i \in 1..Min(k, Len(s)) |-> s[i]]

----------------------------------------------------------------------------
(* The collection: models/Quotes.js *)

HexChars == {"0", "1", "2", "3", "4", "5", "6", "7", "8", "9",
             "a", "b", "c", "d", "e", "f"}

\* The store-assigned identifiers of the records: 24 hex characters each
ObjectIdLen == 24

StoreIds == <<Rep("a", ObjectIdLen), Rep("b", ObjectIdLen), Rep("c", ObjectIdLen),
              Rep("d", ObjectIdLen), Rep("e", ObjectIdLen)>>

\* The source labels the seeded records carry
Sources == {<<"G", "i", ".", "*">>, <<"g", "i", "t", "a">>, <<"(", "i", ")", "$">>}

\* A stored document: the schema's fields plus the store's _id and __v
QuoteDoc(i, src) ==
    [_id |-> StoreIds[i], __v |-> 0, sloka |-> i, source |-> src]

Stores ==
    UNION {{[i \in 1..n |-> QuoteDoc(i, f[i])] : f \in [1..n -> Sources]} : n \in 0..MaxStore}

\* QuoteSchema's toJSON transform: applied when a mongoose document is serialised
toJSONTransform(ret) ==
    [k \in ((DOMAIN ret) \ {"_id", "__v"}) \cup {"id"} |->
        IF k = "id" THEN ret["_id"] ELSE ret[k]]

\* .select('-__v'): the projection drops the version key
selectMinusV(doc) == [k \in (DOMAIN doc) \ {"__v"} |-> doc[k]]

\* What res.json() writes for a query result: a mongoose document goes through
\* the schema's toJSON transform, a lean (plain) object is written as it is.
Serialise(doc, lean) == IF lean THEN doc ELSE toJSONTransform(doc)

\* Quote.countDocuments()
countDocuments(s) == Len(s)

\* Quote.findOne().skip(n): the record at zero-based offset n, or null (<<>>)
findOneSkip(s, n) == IF n < Len(s) THEN <<s[n + 1]>> ELSE <<>>

\* Quote.find().skip(skip).limit(limit)
findSkipLimit(s, skip, limit) == Take(Drop(s, Min(skip, Len(s))), limit)

\* Quote.findById(id)
findById(s, id) ==
    LET hits == {i \in 1..Len(s) : s[i]._id = id}
    IN  IF hits = {} THEN <<>> ELSE <<s[CHOOSE i \in hits : TRUE]>>

----------------------------------------------------------------------------
(* Requests, responses and errors *)

\* A query-string value: absent, a string, or an array (a repeated key)
NoParam == [type |-> "undefined", s |-> <<>>]

Str(s) == [type |-> "string", s |-> s]

ArrayParam == [type |-> "array", s |-> <<>>]

\* What a store call can reject with; code and statusCode 0 stand for undefined
NoError == [name |-> "none", message |-> "", code |-> 0, statusCode |-> 0, fields |-> <<>>]

\* No request: every handler local at its default
Idle ==
    [route |-> "idle", pc |-> "done", id |-> <<>>, source |-> NoParam,
     page |-> NoParam, limit |-> NoParam, count |-> -1, offset |-> -1,
     dayOfYear |-> 0, pattern |-> <<>>, err |-> NoError,
     client |-> "none", nth |-> 0, servedBefore |-> 0, apiNth |-> 0]

NoPagination ==
    [currentPage |-> 0, totalPages |-> 0, totalItems |-> 0, itemsPerPage |-> 0,
     hasNextPage |-> FALSE, hasPrevPage |-> FALSE]

\* No response yet
NoResp ==
    [status |-> 0, success |-> FALSE, error |-> "", by |-> "none",
     dataKind |-> "none", data |-> <<>>, dayOfYear |-> 0, count |-> 0,
     pagination |-> NoPagination, details |-> <<>>]

\* sendResponse(res, statusCode, data): the success envelope
sendResponse(statusCode, payload) ==
    [payload EXCEPT !.status = statusCode, !.success = TRUE, !.by = "handler"]

\* res.status(code).json({success: false, error: message}) inside a handler
sendError(statusCode, message) ==
    [NoResp EXCEPT !.status = statusCode, !.error = message, !.by = "handler"]

\* Rejections of a store call
Errors ==
    { [name |-> "MongoNetworkError", message |-> "connect ECONNREFUSED 10.0.0.7:27017",
       code |-> 0, statusCode |-> 0, fields |-> <<>>],
      [name |-> "Error", message |-> "upstream unavailable",
       code |-> 0, statusCode |-> 503, fields |-> <<>>],
      [name |-> "ValidationError", message |-> "Quote validation failed",
       code |-> 0, statusCode |-> 0, fields |-> <<"Sloka text is required">>],
      [name |-> "CastError", message |-> "Cast to ObjectId failed",
       code |-> 0, statusCode |-> 0, fields |-> <<>>],
      [name |-> "MongoServerError", message |-> "E11000 duplicate key error",
       code |-> 11000, statusCode |-> 0, fields |-> <<>>] }

Outcomes == Errors \cup {NoError}

NodeEnvs == {"production", "development", "undefined"}

\* The default branch sends err.message in every mode
errorHandlerRaw(err, env) ==
    IF err.name = "ValidationError"
    THEN [NoResp EXCEPT !.status = 400, !.error = "Validation error",
                        !.details = err.fields, !.by = "errorHandler"]
    ELSE IF err.name = "CastError"
    THEN [NoResp EXCEPT !.status = 400, !.error = "Invalid ID format",
                        !.by = "errorHandler"]
    ELSE IF err.code = 11000
    THEN [NoResp EXCEPT !.status = 400, !.error = "Duplicate field value",
                        !.by = "errorHandler"]
    ELSE [NoResp EXCEPT
            !.status = IF err.statusCode # 0 THEN err.statusCode ELSE 500,
            !.error = err.message,
            !.by = "errorHandler"]

\* The global error handler: app.use((err, req, res, next) => ...)
errorHandler(err, env) ==
    IF err.name = "ValidationError"
    THEN [NoResp EXCEPT !.status = 400, !.error = "Validation error",
                        !.details = err.fields, !.by = "errorHandler"]
    ELSE IF err.name = "CastError"
    THEN [NoResp EXCEPT !.status = 400, !.error = "Invalid ID format",
                        !.by = "errorHandler"]
    ELSE IF err.code = 11000
    THEN [NoResp EXCEPT !.status = 400, !.error = "Duplicate field value",
                        !.by = "errorHandler"]
    ELSE [NoResp EXCEPT
            !.status = IF err.statusCode # 0 THEN err.statusCode ELSE 500,
            !.error = IF env = "production" THEN "Internal server error"
                      ELSE err.message,
            !.by = "errorHandler"]

\* asyncHandler: a rejection inside the handler is passed to next(), which
\* runs the global error handler; the handler's remaining code does not run.
Rejected(r, err, call) ==
    /\ err # NoError
    /\ req' = [r EXCEPT !.pc = "done", !.err = err]
    /\ calls' = Append(IF r.pc = "fetch" THEN calls ELSE <<>>, call)
    /\ resp' = errorHandler(err, nodeEnv)

\* A new request can be taken up when none is being handled
Ready == req.route = "idle"

\* The response has gone out: the request and the handler's locals are dropped
Finish ==
    /\ req.route # "idle"
    /\ req.pc = "done"
    /\ req' = Idle
    /\ resp' = NoResp
    /\ calls' = <<>>
    /\ UNCHANGED <<proc, loader, store, nodeEnv, clock, seen, apiHits, quoteHits, sent, walk>>

----------------------------------------------------------------------------
(* GET /api/quote/random *)

\* Math.ceil in place of Math.floor
randomOffsetCeil(rnd, count) == (rnd * count + RandDenom - 1) \div RandDenom

\* Math.floor(Math.random() * count), Math.random() being rnd / RandDenom
randomOffset(rnd, count) == (rnd * count) \div RandDenom

\* Up to the first await's result: count, the 404, the offset
RandomBegin(r, rnd, err) ==
    LET count == countDocuments(store)
    IN     \/ Rejected(r, err, "countDocuments")
           \/ /\ err = NoError
              /\ count = 0
              /\ req' = [r EXCEPT !.count = count]
              /\ calls' = <<"countDocuments">>
              /\ resp' = sendError(404, "No quotes found in database")
           \/ /\ err = NoError
              /\ count # 0
              /\ req' = [r EXCEPT !.count = count, !.pc = "fetch",
                                  !.offset = randomOffset(rnd, count)]
              /\ calls' = <<"countDocuments">>
              /\ resp' = NoResp

RandomStart(rnd, err) ==
    /\ Ready
    /\ RandomBegin([Idle EXCEPT !.route = "random"], rnd, err)
    /\ UNCHANGED <<proc, loader, store, nodeEnv, clock, seen, apiHits, quoteHits, sent, walk>>

\* Quote.findOne().skip(random).select('-__v').lean(), then the 200
RandomFetch(err) ==
    /\ req.route = "random"
    /\ req.pc = "fetch"
    /\ LET quote == findOneSkip(store, req.offset)
       IN  \/ Rejected(req, err, "findOne")
           \/ /\ err = NoError
              /\ req' = [req EXCEPT !.pc = "done"]
              /\ calls' = Append(calls, "findOne")
              /\ resp' = sendResponse(200,
                    [NoResp EXCEPT !.dataKind = "one",
                        !.data = [i \in 1..Len(quote) |->
                                    Serialise(selectMinusV(quote[i]), TRUE)]])
    /\ UNCHANGED <<proc, loader, store, nodeEnv, clock, seen, apiHits, quoteHits, sent, walk>>

----------------------------------------------------------------------------
(* GET /api/quote/:id *)

\* The length alone is looked at
isValidLength(id) == Len(id) = ObjectIdLen

\* mongoose.Types.ObjectId.isValid(id) for a string: 24 hex characters
isValid(id) == Len(id) = ObjectIdLen /\ \A i \in 1..Len(id) : id[i] \in HexChars

\* The identifiers requests carry
RequestIds ==
    { <<"1", "2", "3">>, Rep("z", ObjectIdLen), Rep("a", ObjectIdLen - 1),
      Rep("a", ObjectIdLen), Rep("b", ObjectIdLen), Rep("f", ObjectIdLen) }

ById(id, err) ==
    /\ Ready
    /\ LET r == [Idle EXCEPT !.route = "byId", !.id = id]
           quote == findById(store, id)
       IN  \/ /\ ~isValid(id)
              /\ err = NoError
              /\ req' = r
              /\ calls' = <<>>
              /\ resp' = sendError(400, "Invalid quote ID format")
           \/ /\ isValid(id)
              /\ Rejected(r, err, "findById")
           \/ /\ isValid(id)
              /\ err = NoError
              /\ quote = <<>>
              /\ req' = r
              /\ calls' = <<"findById">>
              /\ resp' = sendError(404, "Quote not found")
           \/ /\ isValid(id)
              /\ err = NoError
              /\ quote # <<>>
              /\ req' = r
              /\ calls' = <<"findById">>
              /\ resp' = sendResponse(200,
                    [NoResp EXCEPT !.dataKind = "one",
                        !.data = <<Serialise(selectMinusV(quote[1]), TRUE)>>])
    /\ UNCHANGED <<proc, loader, store, nodeEnv, clock, seen, apiHits, quoteHits, sent, walk>>

----------------------------------------------------------------------------
(* GET /api/quote/daily *)

\* const oneDay = 1000 * 60 * 60 * 24, in seconds
oneDay == 60 * 60 * 24

DaysInYear(leap) == IF leap THEN 366 ELSE 365

\* The time zones the process may run in: no daylight saving, daylight saving
\* in the middle of the year (clocks go forward at 02:00 on day 67 and back at
\* 02:00 on day 305), daylight saving across the new year (back at 03:00 on day
\* 95, forward at 02:00 on day 277).
Zones == {"UTC", "north", "south"}

\* Whether daylight saving time is in force at local wall time (day, sec);
\* day 0 is December 31 of the year before.
inDst(tz, day, sec) ==
    CASE tz = "UTC" -> FALSE
      [] tz = "north" -> /\ (day > 67 \/ (day = 67 /\ sec >= 3 * 3600))
                         /\ (day < 305 \/ (day = 305 /\ sec < 3600))
      [] tz = "south" -> \/ (day < 95 \/ (day = 95 /\ sec < 2 * 3600))
                         \/ (day > 277 \/ (day = 277 /\ sec >= 3 * 3600))

\* Seconds the local clock is ahead of the zone's standard time
dstShift(tz, day, sec) == IF inDst(tz, day, sec) THEN 3600 ELSE 0

\* The instant of local wall time (day, sec), in seconds of the zone's
\* standard time since the nominal midnight that begins day 0
instant(tz, day, sec) == day * oneDay + sec - dstShift(tz, day, sec)

\* now - start: start = new Date(now.getFullYear(), 0, 0), local midnight of day 0
diffOf(c) == instant(c.tz, c.day, c.sec) - instant(c.tz, 0, 0)

\* Math.floor(diff / oneDay)
dayOfYearOf(c) == diffOf(c) \div oneDay

\* dayOfYear % count
dailyIndex(dayOfYear, count) == dayOfYear % count

NoneSeen == [set |-> FALSE, count |-> 0, dayOfYear |-> 0, index |-> 0]

DailyStart(err) ==
    /\ Ready
    /\ LET r == [Idle EXCEPT !.route = "daily"]
           count == countDocuments(store)
           dayOfYear == dayOfYearOf(clock)
           index == dailyIndex(dayOfYear, count)
       IN  \/ /\ Rejected(r, err, "countDocuments")
              /\ seen' = seen
           \/ /\ err = NoError
              /\ count = 0
              /\ req' = [r EXCEPT !.count = count]
              /\ calls' = <<"countDocuments">>
              /\ resp' = sendError(404, "No quotes found in database")
              /\ seen' = seen
           \/ /\ err = NoError
              /\ count # 0
              /\ req' = [r EXCEPT !.count = count, !.pc = "fetch",
                                  !.dayOfYear = dayOfYear, !.offset = index]
              /\ calls' = <<"countDocuments">>
              /\ resp' = NoResp
              /\ seen' = IF seen.set THEN seen
                         ELSE [set |-> TRUE, count |-> count,
                               dayOfYear |-> dayOfYear, index |-> index]
    /\ UNCHANGED <<proc, loader, store, nodeEnv, clock, apiHits, quoteHits, sent, walk>>

DailyFetch(err) ==
    /\ req.route = "daily"
    /\ req.pc = "fetch"
    /\ LET quote == findOneSkip(store, req.offset)
       IN  \/ Rejected(req, err, "findOne")
           \/ /\ err = NoError
              /\ req' = [req EXCEPT !.pc = "done"]
              /\ calls' = Append(calls, "findOne")
              /\ resp' = sendResponse(200,
                    [NoResp EXCEPT !.dataKind = "one",
                        !.data = [i \in 1..Len(quote) |->
                                    Serialise(selectMinusV(quote[i]), TRUE)],
                        !.dayOfYear = req.dayOfYear])
    /\ UNCHANGED <<proc, loader, store, nodeEnv, clock, seen, apiHits, quoteHits, sent, walk>>

\* The times of day the clock is read at
DaySecs == {0, 1800, 12 * 3600, 23 * 3600 + 1800}

\* Time passes between requests: to a later time of the same date, or to the
\* first sampled time of the next date (a new year may be of either kind).
Tick ==
    /\ Ready
    /\ \/ /\ \E s \in DaySecs : s > clock.sec /\ clock' = [clock EXCEPT !.sec = s]
          /\ seen' = seen
       \/ /\ clock.day < DaysInYear(clock.leap)
          /\ clock' = [clock EXCEPT !.day = clock.day + 1, !.sec = 0]
          /\ seen' = NoneSeen
       \/ /\ clock.day = DaysInYear(clock.leap)
          /\ \E l \in BOOLEAN : clock' = [clock EXCEPT !.day = 1, !.sec = 0, !.leap = l]
          /\ seen' = NoneSeen
    /\ UNCHANGED <<proc, loader, store, nodeEnv, req, resp, calls, apiHits, quoteHits, sent, walk>>

\* The process is restarted while a request is in flight: nothing of the
\* handler survives, the store and the clock are outside the process
Restart ==
    /\ req.pc = "fetch"
    /\ req' = Idle
    /\ resp' = NoResp
    /\ calls' = <<>>
    /\ UNCHANGED <<proc, loader, store, nodeEnv, clock, seen, apiHits, quoteHits, sent, walk>>

----------------------------------------------------------------------------
(* GET /api/quotes/search *)

\* The character class of the replace: [.*+?^${}()|[\]\\]
MetaChars == {".", "*", "+", "?", "^", "$", "{", "}", "(", ")", "|", "[", "]", "\\"}

\* The class lacks the dot
escapeCharNoDot(c) == IF c \in MetaChars \ {"."} THEN <<"\\", c>> ELSE <<c>>

\* One character of source.replace(/[.*+?^${}()|[\]\\]/g, '\\$&')
escapeChar(c) == IF c \in MetaChars THEN <<"\\", c>> ELSE <<c>>

RECURSIVE escapeRegex(_)
\* source.replace(/[.*+?^${}()|[\]\\]/g, '\\$&')
escapeRegex(s) ==
    IF s = <<>> THEN <<>> ELSE escapeChar(Head(s)) \o escapeRegex(Tail(s))

\* Case folding of $options: 'i'
Lower(c) ==
    CASE c = "G" -> "g"
      [] c = "I" -> "i"
      [] c = "T" -> "t"
      [] c = "A" -> "a"
      [] c = "Y" -> "y"
      [] c = "N" -> "n"
      [] OTHER -> c

\* The store's evaluation of { $regex: p, $options: 'i' } on a text, for
\* patterns made of literals, \c (the character c itself), ".", the anchors
\* ^ and $, and the quantifiers * + ? after one of these; a pattern with an
\* unescaped group, class, brace or alternation, a dangling quantifier or a
\* trailing backslash matches nothing here.
atomLen(p, i) == IF p[i] = "\\" THEN 2 ELSE 1

atomOk(p, i) ==
    IF p[i] = "\\" THEN i + 1 <= Len(p)
    ELSE p[i] \notin {"*", "+", "?", "{", "}", "(", ")", "|", "[", "]"}

atomMatches(p, i, c) ==
    IF p[i] = "\\" THEN Lower(p[i + 1]) = Lower(c)
    ELSE IF p[i] = "." THEN TRUE
    ELSE Lower(p[i]) = Lower(c)

\* t[j .. j+k-1] all match the atom at p[i]
runMatches(p, i, t, j, k) ==
    /\ j + k - 1 <= Len(t)
    /\ \A n \in j..(j + k - 1) : atomMatches(p, i, t[n])

RECURSIVE matchHere(_, _, _, _)
\* p from index i matches a prefix of t from index j
matchHere(p, i, t, j) ==
    IF i > Len(p) THEN TRUE
    ELSE IF ~atomOk(p, i) THEN FALSE
    ELSE IF p[i] = "^" THEN j = 1 /\ matchHere(p, i + 1, t, j)
    ELSE IF p[i] = "$" THEN j = Len(t) + 1 /\ matchHere(p, i + 1, t, j)
    ELSE LET q == i + atomLen(p, i)
             quant == IF q <= Len(p) THEN p[q] ELSE ""
             lo == IF quant = "+" THEN 1 ELSE 0
             hi == IF quant = "?" THEN 1 ELSE Len(t) + 1 - j
         IN  IF quant \in {"*", "+", "?"}
             THEN \E k \in lo..hi : /\ runMatches(p, i, t, j, k)
                                    /\ matchHere(p, q + 1, t, j + k)
             ELSE /\ runMatches(p, i, t, j, 1)
                  /\ matchHere(p, q, t, j + 1)

regexTest(p, t) == \E j \in 1..(Len(t) + 1) : matchHere(p, 1, t, j)

RECURSIVE filterSeq(_, _)
\* The records of s whose source the pattern matches, in order
filterSeq(s, p) ==
    IF s = <<>> THEN <<>>
    ELSE (IF regexTest(p, Head(s).source) THEN <<Head(s)>> ELSE <<>>)
         \o filterSeq(Tail(s), p)

\* .limit(50)
SearchLimit == 50

\* Quote.find({ source: { $regex: pattern, $options: 'i' } }).limit(50)
findBySource(s, pattern) == Take(filterSeq(s, pattern), SearchLimit)

Search(source, err) ==
    /\ Ready
    /\ LET r == [Idle EXCEPT !.route = "search", !.source = source]
           sanitizedSource == escapeRegex(source.s)
           quotes == findBySource(store, sanitizedSource)
       IN  \/ /\ (source.type # "string" \/ source.s = <<>>)
              /\ err = NoError
              /\ req' = r
              /\ calls' = <<>>
              /\ resp' = sendError(400, "Source query parameter is required")
           \/ /\ source.type = "string" /\ source.s # <<>>
              /\ Rejected(r, err, "find")
           \/ /\ source.type = "string" /\ source.s # <<>>
              /\ err = NoError
              /\ req' = [r EXCEPT !.pattern = sanitizedSource]
              /\ calls' = <<"find">>
              /\ resp' = sendResponse(200,
                    [NoResp EXCEPT !.dataKind = "many",
                        !.count = Len(quotes),
                        !.data = [i \in 1..Len(quotes) |->
                                    Serialise(selectMinusV(quotes[i]), TRUE)]])
    /\ UNCHANGED <<proc, loader, store, nodeEnv, clock, seen, apiHits, quoteHits, sent, walk>>

----------------------------------------------------------------------------
(* GET /api/quotes *)

DecDigits == <<"0", "1", "2", "3", "4", "5", "6", "7", "8", "9">>

HexDigits == DecDigits \o <<"a", "b", "c", "d", "e", "f">>

\* The value of digit character c among digits, or -1
digitValue(digits, c) ==
    LET hits == {i \in 1..Len(digits) : digits[i] = c}
    IN  IF hits = {} THEN -1 ELSE (CHOOSE i \in hits : TRUE) - 1

RECURSIVE digitsPrefix(_, _, _, _)
\* The longest prefix of s that consists of digits, read in the radix, after
\* acc; n counts the digits read so far: <<value, digits read>>
digitsPrefix(s, digits, acc, n) ==
    IF s = <<>> \/ digitValue(digits, Head(s)) < 0 THEN <<acc, n>>
    ELSE digitsPrefix(Tail(s), digits,
                      acc * Len(digits) + digitValue(digits, Head(s)), n + 1)

NaN == [nan |-> TRUE, v |-> 0]

RECURSIVE trimStart(_)
\* Leading white space is skipped
trimStart(s) == IF s # <<>> /\ Head(s) = " " THEN trimStart(Tail(s)) ELSE s

\* parseInt(s) with no radix given: white space, an optional sign, an optional 0x prefix
\* (radix 16), then the longest run of digits; NaN when there is no digit.
\* undefined is read as the string "undefined": NaN.
parseInt(param) ==
    IF param.type # "string" THEN NaN
    ELSE LET s0 == trimStart(param.s)
             neg == s0 # <<>> /\ Head(s0) = "-"
             s1 == IF s0 # <<>> /\ Head(s0) \in {"-", "+"} THEN Tail(s0) ELSE s0
             hex == Len(s1) >= 2 /\ s1[1] = "0" /\ s1[2] = "x"
             s2 == IF hex THEN Drop(s1, 2) ELSE s1
             r == digitsPrefix(s2, IF hex THEN HexDigits ELSE DecDigits, 0, 0)
         IN  IF r[2] = 0 THEN NaN
             ELSE [nan |-> FALSE, v |-> IF neg THEN -r[1] ELSE r[1]]

\* x || d for a number x: NaN and 0 are falsy
orDefault(x, d) == IF x.nan \/ x.v = 0 THEN d ELSE x.v

\* Math.max(1, parseInt(req.query.page) || 1)
pageOf(param) == Max(1, orDefault(parseInt(param), 1))

\* The cap and the default of limit
MaxLimit == 50

DefaultLimit == 10

\* Math.min(50, Math.max(1, parseInt(req.query.limit) || 10))
limitOf(param) == Min(MaxLimit, Max(1, orDefault(parseInt(param), DefaultLimit)))

\* page * limit
skipOfPage(page, limit) == page * limit

\* (page - 1) * limit
skipOf(page, limit) == (page - 1) * limit

\* Math.ceil(total / limit)
ceilDiv(total, limit) == (total + limit - 1) \div limit

\* The 200 of GET /api/quotes for the store s
listResponse(s, pageParam, limitParam) ==
    LET page == pageOf(pageParam)
        limit == limitOf(limitParam)
        skip == skipOf(page, limit)
        quotes == findSkipLimit(s, skip, limit)
        total == countDocuments(s)
    IN  sendResponse(200,
            [NoResp EXCEPT !.dataKind = "many",
                !.data = [i \in 1..Len(quotes) |->
                            Serialise(selectMinusV(quotes[i]), TRUE)],
                !.pagination =
                    [currentPage |-> page,
                     totalPages |-> ceilDiv(total, limit),
                     totalItems |-> total,
                     itemsPerPage |-> limit,
                     hasNextPage |-> page * limit < total,
                     hasPrevPage |-> page > 1]])

\* The handler: both store calls are issued together (Promise.all)
ListRequest(pageParam, limitParam, err) ==
    LET r == [Idle EXCEPT !.route = "list", !.page = pageParam, !.limit = limitParam]
    IN  \/ Rejected(r, err, "find+countDocuments")
        \/ /\ err = NoError
           /\ req' = r
           /\ calls' = <<"find+countDocuments">>
           /\ resp' = listResponse(store, pageParam, limitParam)

\* The page walk: the limit it uses, the page it asks for next, the records it
\* has, and the pagination block of the last page it got
NoWalk ==
    [on |-> FALSE, done |-> FALSE, limit |-> NoParam, next |-> 1, acc |-> <<>>,
     last |-> NoPagination]

List(pageParam, limitParam, err) ==
    /\ Ready
    /\ ~walk.on
    /\ ListRequest(pageParam, limitParam, err)
    /\ UNCHANGED <<proc, loader, store, nodeEnv, clock, seen, apiHits, quoteHits, sent, walk>>

RECURSIVE toDigits(_)
\* String(n) for n >= 0
toDigits(n) ==
    IF n < 10 THEN <<DecDigits[n + 1]>>
    ELSE Append(toDigits(n \div 10), DecDigits[(n % 10) + 1])

\* A client starts reading the whole collection page by page at one limit
WalkBegin(limitParam) ==
    /\ Ready
    /\ ~walk.on
    /\ walk' = [NoWalk EXCEPT !.on = TRUE, !.limit = limitParam]
    /\ UNCHANGED <<proc, loader, store, nodeEnv, req, resp, calls, clock, seen, apiHits, quoteHits, sent>>

\* The client requests its next page and appends the data to what it has; it
\* is done after page totalPages (at once when totalPages is 0), and gives up
\* on an error response.
WalkNext(err) ==
    /\ Ready
    /\ walk.on
    /\ ~walk.done
    /\ ListRequest(Str(toDigits(walk.next)), walk.limit, err)
    /\ walk' = IF err # NoError THEN NoWalk
               ELSE [walk EXCEPT
                        !.acc = walk.acc \o resp'.data,
                        !.next = walk.next + 1,
                        !.last = resp'.pagination,
                        !.done = walk.next >= resp'.pagination.totalPages]
    /\ UNCHANGED <<proc, loader, store, nodeEnv, clock, seen, apiHits, quoteHits, sent>>

\* The client is finished with what it read
WalkEnd ==
    /\ Ready
    /\ walk.on
    /\ walk.done
    /\ walk' = NoWalk
    /\ UNCHANGED <<proc, loader, store, nodeEnv, req, resp, calls, clock, seen, apiHits, quoteHits, sent>>

----------------------------------------------------------------------------
(* The rate limiters in front of the quote routes *)

\* limiter: max: 100 per windowMs of 15 minutes, on /api/
ApiMax == 100

\* quoteLimiter: max: 30 per windowMs of 1 minute, on every quote route
QuoteMax == 30

Clients == {"c1", "c2"}

\* The second client address sends at most this many requests per window of
\* either limiter
MaxOtherHits == 1

\* A client sends at most this many requests per 1-minute window that the
\* general limiter turns away
MaxTurnedAway == 1

\* One more hit on a limiter's counter for the client's key; hits past the
\* limit all count as max + 1
hit(hits, c, max) == [hits EXCEPT ![c] = Min(hits[c] + 1, max + 1)]

\* The limit is reached one hit late
overLimitLate(hits, c, max) == hits[c] > max + 1

\* The limiter's answer once the hit is counted
overLimit(hits, c, max) == hits[c] > max

tooMany(message, by) ==
    [NoResp EXCEPT !.status = 429, !.error = message, !.by = by]

\* Per client address: the requests sent in the current 1-minute window, those
\* of them that reached the handler, those the general limiter turned away,
\* and the requests sent in the current 15-minute window
NoneSent == [quote |-> 0, served |-> 0, away |-> 0, api |-> 0]

\* A request from client address c to GET /api/quote/random passes limiter,
\* then quoteLimiter, then the handler; a limiter over its maximum answers 429
\* and the chain ends there.
LimitedRandom(c, rnd, err) ==
    /\ Ready
    /\ (c # "c1" => sent[c].api < MaxOtherHits /\ sent[c].quote < MaxOtherHits)
    /\ (apiHits[c] >= ApiMax => sent[c].away < MaxTurnedAway)
    /\ LET r == [Idle EXCEPT !.route = "random", !.client = c,
                    !.nth = Min(sent[c].quote + 1, QuoteMax + 1),
                    !.servedBefore = sent[c].served,
                    !.apiNth = Min(sent[c].api + 1, ApiMax + 1)]
           api == hit(apiHits, c, ApiMax)
           quote == hit(quoteHits, c, QuoteMax)
       IN  /\ apiHits' = api
           /\ IF overLimit(api, c, ApiMax)
              THEN /\ quoteHits' = quoteHits
                   /\ req' = r
                   /\ calls' = <<>>
                   /\ resp' = tooMany("Too many requests, please try again later.",
                                      "limiter")
                   /\ err = NoError
                   /\ rnd = 0
                   /\ sent' = [sent EXCEPT ![c].quote = r.nth, ![c].api = r.apiNth,
                                           ![c].away = sent[c].away + 1]
              ELSE /\ quoteHits' = quote
                   /\ IF overLimit(quote, c, QuoteMax)
                      THEN /\ req' = r
                           /\ calls' = <<>>
                           /\ resp' = tooMany("Rate limit exceeded. Please slow down.",
                                              "quoteLimiter")
                           /\ err = NoError
                           /\ rnd = 0
                           /\ sent' = [sent EXCEPT ![c].quote = r.nth,
                                                   ![c].api = r.apiNth]
                      ELSE /\ RandomBegin(r, rnd, err)
                           /\ sent' = [sent EXCEPT ![c].quote = r.nth,
                                          ![c].api = r.apiNth,
                                          ![c].served = Min(sent[c].served + 1, QuoteMax + 1)]
    /\ UNCHANGED <<proc, loader, store, nodeEnv, clock, seen, walk>>

\* The 1-minute window of the client's key ends: quoteLimiter forgets its hits.
\* The timers run between requests.
QuoteWindowExpire(c) ==
    /\ Ready
    /\ sent[c].quote > 0
    /\ quoteHits' = [quoteHits EXCEPT ![c] = 0]
    /\ sent' = [sent EXCEPT ![c].quote = 0, ![c].served = 0, ![c].away = 0]
    /\ UNCHANGED <<proc, loader, store, nodeEnv, req, resp, calls, clock, seen, apiHits, walk>>

\* The 15-minute window of the client's key ends: limiter forgets its hits
ApiWindowExpire(c) ==
    /\ Ready
    /\ sent[c].api > 0
    /\ apiHits' = [apiHits EXCEPT ![c] = 0]
    /\ sent' = [sent EXCEPT ![c].api = 0]
    /\ UNCHANGED <<proc, loader, store, nodeEnv, req, resp, calls, clock, seen, quoteHits, walk>>

----------------------------------------------------------------------------
(* The server process: connectDB, the startup branches, gracefulShutdown *)

MaxInvocations == 2
MaxSignals == 2

\* mongoose.connection.readyState
Disconnected == 0
Connected == 1
Connecting == 2
Disconnecting == 3

\* The process when index.js reaches its startup section: isConnected is
\* false, nothing is connected, both signal handlers are installed
Booting(vercel) ==
    [phase |-> "startup", vercel |-> vercel, isConnected |-> FALSE,
     readyState |-> Disconnected, connect |-> "none", attempts |-> 0,
     failed |-> FALSE, listening |-> FALSE, served |-> 0, servedAfterFail |-> 0,
     attemptsAtFail |-> 0, signal |-> "none", signals |-> 0, closing |-> 0,
     closed |-> FALSE,
     exitBy |-> "none", exitCode |-> -1]

\* A long-running server that connected and listens
Serving ==
    [Booting(FALSE) EXCEPT !.phase = "listening", !.isConnected = TRUE,
                           !.readyState = Connected, !.connect = "resolved",
                           !.attempts = 1, !.listening = TRUE]

Alive == proc.phase # "exited"

\* process.exit(code), with the function that ended the process
exit(p, by, code) == [p EXCEPT !.phase = "exited", !.exitBy = by, !.exitCode = code]

\* connectDB up to its await: the cached-connection return, or mongoose.connect
connectDB(p) ==
    IF p.isConnected /\ p.readyState = Connected
    THEN p
    ELSE [p EXCEPT !.connect = "pending", !.attempts = @ + 1, !.readyState = Connecting]

\* if (process.env.VERCEL) { connectDB(); module.exports = app; }
StartServerless ==
    /\ proc.phase = "startup"
    /\ proc.vercel
    /\ proc' = [connectDB(proc) EXCEPT !.phase = "exported"]
    /\ UNCHANGED <<loader, store, nodeEnv, req, resp, calls, clock, seen, apiHits,
                   quoteHits, sent, walk>>

\* else { startServer(); }: startServer suspends at await connectDB()
StartServer ==
    /\ proc.phase = "startup"
    /\ ~proc.vercel
    /\ proc' = [connectDB(proc) EXCEPT !.phase = "connecting"]
    /\ UNCHANGED <<loader, store, nodeEnv, req, resp, calls, clock, seen, apiHits,
                   quoteHits, sent, walk>>

\* startServer after await connectDB(): app.listen(PORT, ...)
listen(p) ==
    IF p.phase = "connecting"
    THEN [p EXCEPT !.phase = "listening", !.listening = TRUE]
    ELSE p

\* connectDB's catch block
connectFailed(p, env) ==
    LET q == [p EXCEPT !.connect = "rejected", !.readyState = Disconnected,
                       !.failed = TRUE, !.attemptsAtFail = p.attempts]
    IN  IF env = "production" /\ ~p.vercel
        THEN exit(q, "connectDB", 1)
        ELSE listen(q)

\* mongoose.connect settles and connectDB resumes; startServer resumes after it
ConnectSettle(ok) ==
    /\ Alive
    /\ proc.connect = "pending"
    /\ proc' = IF ok
               THEN listen([proc EXCEPT !.connect = "resolved", !.isConnected = TRUE,
                                        !.readyState = IF proc.closing > 0
                                                       THEN Disconnecting
                                                       ELSE Connected])
               ELSE connectFailed(proc, nodeEnv)
    /\ UNCHANGED <<loader, store, nodeEnv, req, resp, calls, clock, seen, apiHits,
                   quoteHits, sent, walk>>

\* The app handles one request (GET /api/quote/random). No route and no
\* middleware calls connectDB; with bufferCommands false a query issued while
\* the connection is not open is rejected at once.
Invocation(err) ==
    /\ Ready
    /\ proc.phase \in {"listening", "exported"}
    /\ proc.served < MaxInvocations
    /\ proc.readyState # Connected => err # NoError
    /\ RandomBegin([Idle EXCEPT !.route = "random"], 0, err)
    /\ proc' = [proc EXCEPT !.served = @ + 1,
                            !.servedAfterFail = IF proc.failed THEN @ + 1 ELSE @]
    /\ UNCHANGED <<loader, store, nodeEnv, clock, seen, apiHits, quoteHits, sent, walk>>

\* process.on('SIGINT' | 'SIGTERM'): gracefulShutdown up to its await
Signal(sig) ==
    /\ Alive
    /\ proc.signals < MaxSignals
    /\ proc' = [proc EXCEPT !.signal = sig, !.signals = @ + 1, !.closing = @ + 1,
                            !.readyState = IF @ = Disconnected THEN @ ELSE Disconnecting]
    /\ UNCHANGED <<loader, store, nodeEnv, req, resp, calls, clock, seen, apiHits,
                   quoteHits, sent, walk>>

\* gracefulShutdown exits without waiting for the close to settle
afterCloseNoAwait(p, ok) ==
    exit([p EXCEPT !.closing = @ - 1], "gracefulShutdown", 0)

\* gracefulShutdown after await mongoose.connection.close(): process.exit(0)
\* when the close resolved; a rejected close leaves the async function by an
\* unhandled rejection, which ends the process with a failure code
afterClose(p, ok) ==
    IF ok
    THEN exit([p EXCEPT !.closing = @ - 1, !.closed = TRUE,
                        !.readyState = Disconnected],
              "gracefulShutdown", 0)
    ELSE exit([p EXCEPT !.closing = @ - 1], "unhandledRejection", 1)

CloseSettle(ok) ==
    /\ Alive
    /\ proc.closing > 0
    /\ proc' = afterClose(proc, ok)
    /\ UNCHANGED <<loader, store, nodeEnv, req, resp, calls, clock, seen, apiHits,
                   quoteHits, sent, walk>>

----------------------------------------------------------------------------
(* The seeding script (scripts/seed.js) *)

MaxSeed == 2

\* The identifiers the store gives to inserted records
SeedIds == <<Rep("1", ObjectIdLen), Rep("2", ObjectIdLen), Rep("3", ObjectIdLen),
             Rep("4", ObjectIdLen)>>

\* quotes.json: per element, whether it carries the required sloka
QuotesFiles == UNION {[1..n -> BOOLEAN] : n \in 0..MaxSeed}

\* What the operator may type at the prompt
Answers == {<<"y">>, <<"Y">>, <<"n">>, <<>>, <<"y", "e", "s">>, <<" ", "y">>}

\* The seeding script has not been started
NoLoader ==
    [pc |-> "off", file |-> <<>>, existingCount |-> -1, prompted |-> FALSE,
     answered |-> FALSE, answer |-> <<>>, cleared |-> FALSE, inserted |-> -1,
     before |-> <<>>, exitCode |-> -1]

toLowerCase(s) == [i \in 1..Len(s) |-> Lower(s[i])]

\* Every answer but "n" goes on to clear the collection
proceedsUnlessNo(answer) == toLowerCase(answer) # <<"n">>

\* The negation of answer.toLowerCase() !== 'y'
proceeds(answer) == toLowerCase(answer) = <<"y">>

\* Quote.insertMany(quotesData, { ordered: false }): the elements that pass
\* validation are inserted, the others are skipped
accepted(file) ==
    SelectSeq([i \in 1..Len(file) |-> [n |-> i, ok |-> file[i]]], LAMBDA e : e.ok)

insertMany(s, file) ==
    s \o [k \in 1..Len(accepted(file)) |->
            [_id |-> SeedIds[accepted(file)[k].n], __v |-> 0,
             sloka |-> 10 + accepted(file)[k].n, source |-> <<"g", "i", "t", "a">>]]

\* process.exit(code) in the script
loaderExit(l, code) == [l EXCEPT !.pc = "exited", !.exitCode = code]

\* mongoose.connect, the read of quotes.json and Quote.countDocuments(); the
\* prompt is shown when the count is positive
LoaderStart(file, ok) ==
    /\ loader.pc = "off"
    /\ LET existingCount == countDocuments(store)
           l == [loader EXCEPT !.file = file, !.before = store]
       IN  loader' = IF ~ok
                     THEN loaderExit(l, 1)
                     ELSE [l EXCEPT !.existingCount = existingCount,
                                    !.prompted = existingCount > 0,
                                    !.pc = IF existingCount > 0 THEN "prompt"
                                                                ELSE "insert"]
    /\ UNCHANGED <<proc, store, nodeEnv, req, resp, calls, clock, seen, apiHits,
                   quoteHits, sent, walk>>

\* The operator's answer: anything but y or Y cancels with process.exit(0)
LoaderAnswer(answer) ==
    /\ loader.pc = "prompt"
    /\ LET l == [loader EXCEPT !.answered = TRUE, !.answer = answer]
       IN  loader' = IF proceeds(answer)
                     THEN [l EXCEPT !.pc = "clear"]
                     ELSE loaderExit(l, 0)
    /\ UNCHANGED <<proc, store, nodeEnv, req, resp, calls, clock, seen, apiHits,
                   quoteHits, sent, walk>>

\* await Quote.deleteMany({})
LoaderClear(ok) ==
    /\ loader.pc = "clear"
    /\ IF ok
       THEN /\ store' = <<>>
            /\ walk' = NoWalk
            /\ loader' = [loader EXCEPT !.cleared = TRUE, !.pc = "insert"]
       ELSE /\ loader' = loaderExit(loader, 1)
            /\ UNCHANGED <<store, walk>>
    /\ UNCHANGED <<proc, nodeEnv, req, resp, calls, clock, seen, apiHits,
                   quoteHits, sent>>

\* await Quote.insertMany(quotesData, { ordered: false })
LoaderInsert(ok) ==
    /\ loader.pc = "insert"
    /\ IF ok
       THEN /\ store' = insertMany(store, loader.file)
            /\ walk' = NoWalk
            /\ loader' = [loader EXCEPT !.inserted = Len(accepted(loader.file)),
                                        !.pc = "indexes"]
       ELSE /\ loader' = loaderExit(loader, 1)
            /\ UNCHANGED <<store, walk>>
    /\ UNCHANGED <<proc, nodeEnv, req, resp, calls, clock, seen, apiHits,
                   quoteHits, sent>>

\* await Quote.createIndexes(), then the finally block closes and exits
LoaderEnd(ok) ==
    /\ loader.pc = "indexes"
    /\ loader' = loaderExit(loader, IF ok THEN 0 ELSE 1)
    /\ UNCHANGED <<proc, store, nodeEnv, req, resp, calls, clock, seen, apiHits,
                   quoteHits, sent, walk>>

----------------------------------------------------------------------------
(* Specifications *)

\* What every specification starts from, the store, mode and clock apart
InitRequests ==
    /\ req = Idle
    /\ resp = NoResp
    /\ calls = <<>>
    /\ seen = NoneSeen
    /\ apiHits = [c \in Clients |-> 0]
    /\ quoteHits = [c \in Clients |-> 0]
    /\ sent = [c \in Clients |-> NoneSent]
    /\ walk = NoWalk

\* The same with the server connected and listening and no seeding run
InitRest ==
    /\ InitRequests
    /\ proc = Serving
    /\ loader = NoLoader

Noon == 12 * 3600

\* The server with all five read routes, one request at a time
SomeClocks ==
    { [tz |-> "UTC", leap |-> FALSE, day |-> 1, sec |-> 0],
      [tz |-> "north", leap |-> TRUE, day |-> 366, sec |-> Noon] }

SomeSources ==
    { NoParam, ArrayParam, Str(<<>>), Str(<<"G", "i">>), Str(<<"i", ".">>),
      Str(<<".", "*">>) }

SomePages == { NoParam, Str(<<"1">>), Str(<<"2">>), Str(<<"x">>) }

SomeLimits == { NoParam, Str(<<"0">>), Str(<<"1">>), Str(<<"2">>), Str(<<"5", "1">>) }

Init ==
    /\ store \in Stores
    /\ nodeEnv \in NodeEnvs
    /\ clock \in SomeClocks
    /\ InitRest

Next ==
    \/ Finish
    \/ Ready /\ \E rnd \in 0..(RandDenom - 1), err \in Outcomes : RandomStart(rnd, err)
    \/ \E err \in Outcomes : RandomFetch(err)
    \/ Ready /\ \E err \in Outcomes : DailyStart(err)
    \/ \E err \in Outcomes : DailyFetch(err)
    \/ Ready /\ \E id \in RequestIds, err \in Outcomes : ById(id, err)
    \/ Ready /\ \E source \in SomeSources, err \in Outcomes : Search(source, err)
    \/ Ready /\ \E p \in SomePages, l \in SomeLimits, err \in Outcomes : List(p, l, err)

Spec == Init /\ [][Next]_vars

\* The daily route under a running clock
PlainStores == {s \in Stores : \A i \in 1..Len(s) : s[i].source = <<"g", "i", "t", "a">>}

Clocks ==
    { [tz |-> z, leap |-> l, day |-> d, sec |-> s] :
        z \in Zones, l \in BOOLEAN, d \in {1, 67, 200, 305}, s \in DaySecs }

SomeOutcomes == {NoError} \cup {e \in Errors : e.name = "MongoNetworkError"}

InitDaily ==
    /\ store \in PlainStores
    /\ nodeEnv = "production"
    /\ clock \in Clocks
    /\ InitRest

NextDaily ==
    \/ Finish
    \/ \E err \in SomeOutcomes : DailyStart(err)
    \/ \E err \in SomeOutcomes : DailyFetch(err)
    \/ Tick
    \/ Restart

SpecDaily == InitDaily /\ [][NextDaily]_vars

\* The search route over every term of the alphabet
SearchChars == MetaChars \cup {"g", "G", "i"}

SearchTerms == SeqsUpTo(SearchChars, MaxSourceLen)

InitSearch ==
    /\ store \in {s \in Stores : Len(s) <= 1}
    /\ nodeEnv = "production"
    /\ clock \in {c \in SomeClocks : c.tz = "UTC"}
    /\ InitRest

NextSearch ==
    \/ Finish
    \/ Ready /\ \E s \in SearchTerms, err \in SomeOutcomes : Search(Str(s), err)
    \/ Ready /\ \E source \in {NoParam, ArrayParam} : Search(source, NoError)

SpecSearch == InitSearch /\ [][NextSearch]_vars

\* The list route over every query value of the alphabet, and the page walk
QueryChars == {"-", "0", "1", "5", "x"}

QueryValues == {NoParam} \cup {Str(s) : s \in SeqsUpTo(QueryChars, MaxQueryLen)}

InitPage ==
    /\ store \in PlainStores
    /\ nodeEnv = "production"
    /\ clock \in {c \in SomeClocks : c.tz = "UTC"}
    /\ InitRest

NextPage ==
    \/ Finish
    \/ Ready /\ ~walk.on
          /\ \E p \in QueryValues, l \in QueryValues, err \in SomeOutcomes : List(p, l, err)
    \/ Ready /\ ~walk.on /\ \E l \in QueryValues : WalkBegin(l)
    \/ \E err \in SomeOutcomes : WalkNext(err)
    \/ WalkEnd

SpecPage == InitPage /\ [][NextPage]_vars

\* The limiters in front of the random route, over an empty collection
InitRate ==
    /\ store = <<>>
    /\ nodeEnv = "production"
    /\ clock \in {c \in SomeClocks : c.tz = "UTC"}
    /\ InitRest

NextRate ==
    \/ Finish
    \/ \E c \in Clients : LimitedRandom(c, 0, NoError)
    \/ \E c \in Clients : QuoteWindowExpire(c)
    \/ \E c \in Clients : ApiWindowExpire(c)

SpecRate == InitRate /\ [][NextRate]_vars

----------------------------------------------------------------------------
(* Claims about the handlers, under Spec *)

Issued(call) == \E i \in 1..Len(calls) : calls[i] = call

\* C1: on GET /api/quote/random, whenever the count is positive the offset
\* computed and passed to findOne().skip() is an integer in [0, count); when
\* the count is 0 the answer is 404, no offset is computed and no fetch is
\* issued.
C1_RandomOffsetInRange ==
    req.route = "random" =>
        /\ (req.count > 0 => req.offset \in 0..(req.count - 1))
        /\ (Issued("findOne") => req.count > 0 /\ req.offset \in 0..(req.count - 1))
        /\ (req.count = 0 =>
                /\ resp.status = 404
                /\ resp.by = "handler"
                /\ req.offset = -1
                /\ ~Issued("findOne"))

\* A random request over a full collection drew its last record and answered 200
C1_Witness ==
    /\ req.route = "random"
    /\ req.count = MaxStore
    /\ req.offset = req.count - 1
    /\ Issued("findOne")
    /\ resp.status = 200

\* An identifier of the store's format: 24 hexadecimal characters
WellFormedId(id) ==
    /\ Len(id) = 24
    /\ \A i \in 1..Len(id) :
          id[i] \in {"0", "1", "2", "3", "4", "5", "6", "7", "8", "9",
                     "a", "b", "c", "d", "e", "f"}

\* C7: GET /api/quote/:id with an identifier that is not of the store's
\* format is answered 400 by the handler, and the store is not queried.
C7_InvalidIdIs400 ==
    (req.route = "byId" /\ ~WellFormedId(req.id)) =>
        /\ resp.status = 400
        /\ resp.by = "handler"
        /\ Len(calls) = 0

\* The identifier "123" was answered 400 with no store call
C7_Witness ==
    /\ req.route = "byId"
    /\ req.id = <<"1", "2", "3">>
    /\ resp.status = 400
    /\ Len(calls) = 0

\* C8: every record in the data of a response carries the public id field,
\* not the raw _id, and no __v.
C8_PublicIdNoVersion ==
    \A i \in 1..Len(resp.data) :
        /\ "id" \in DOMAIN resp.data[i]
        /\ "_id" \notin DOMAIN resp.data[i]
        /\ "__v" \notin DOMAIN resp.data[i]

\* The three kinds of error the global error handler answers 400 to
Recognised(err) ==
    err.name \in {"ValidationError", "CastError"} \/ err.code = 11000

\* C10 as stated: every error a handler fails with reaches the global error
\* handler, which answers with "Internal server error" in production mode and
\* with the raw message otherwise, the status being the error's own or 500.
C10_GenericInProduction ==
    req.err # NoError =>
        /\ resp.by = "errorHandler"
        /\ resp.error = (IF nodeEnv = "production" THEN "Internal server error"
                         ELSE req.err.message)
        /\ Len(resp.details) = 0
        /\ resp.status = (IF req.err.statusCode # 0 THEN req.err.statusCode ELSE 500)

\* C10 amended: the above holds for every error that is not a ValidationError,
\* a CastError or a duplicate-key error (code 11000); those three are answered
\* 400 in every mode with a fixed message that is not the raw message, a
\* ValidationError with its per-field messages added.
C10_GenericUnlessRecognised ==
    req.err # NoError =>
        /\ resp.by = "errorHandler"
        /\ ~resp.success
        /\ IF Recognised(req.err)
           THEN /\ resp.status = 400
                /\ resp.error \in {"Validation error", "Invalid ID format",
                                   "Duplicate field value"}
                /\ resp.error # req.err.message
                /\ resp.details =
                      (IF req.err.name = "ValidationError" THEN req.err.fields ELSE <<>>)
           ELSE /\ resp.error = (IF nodeEnv = "production" THEN "Internal server error"
                                 ELSE req.err.message)
                /\ (nodeEnv = "production" => resp.error # req.err.message)
                /\ Len(resp.details) = 0
                /\ resp.status =
                      (IF req.err.statusCode # 0 THEN req.err.statusCode ELSE 500)

\* In production a store call failed with a network error and the client got
\* the generic message with status 500
C10_Witness ==
    /\ nodeEnv = "production"
    /\ req.err.name = "MongoNetworkError"
    /\ resp.by = "errorHandler"
    /\ resp.status = 500
    /\ resp.error = "Internal server error"

----------------------------------------------------------------------------
(* Claims about pagination, under SpecPage *)

\* A decimal integer literal: an optional minus sign, then digits only
IsIntLiteral(param) ==
    /\ param.type = "string"
    /\ LET s == param.s
           body == IF s # <<>> /\ Head(s) = "-" THEN Tail(s) ELSE s
       IN  /\ body # <<>>
           /\ \A i \in 1..Len(body) : digitValue(DecDigits, body[i]) >= 0

RECURSIVE decimalValue(_)
\* The number a string of decimal digits denotes
decimalValue(body) ==
    IF body = <<>> THEN 0
    ELSE 10 * decimalValue(SubSeq(body, 1, Len(body) - 1))
         + digitValue(DecDigits, body[Len(body)])

IntOf(param) ==
    IF Head(param.s) = "-" THEN 0 - decimalValue(Tail(param.s))
    ELSE decimalValue(param.s)

clamp(x, lo, hi) == IF x < lo THEN lo ELSE IF x > hi THEN hi ELSE x

\* C2: for every integer page >= 1 and every integer limit (0, negative and
\* above 50 included) the pagination block of GET /api/quotes has
\* itemsPerPage = clamp(limit, 1, 50), currentPage = page and
\* hasNextPage = (page * itemsPerPage < totalItems).
C2_ItemsPerPageIsClampedLimit ==
    (/\ req.route = "list"
     /\ resp.status = 200
     /\ IsIntLiteral(req.page)
     /\ IsIntLiteral(req.limit)
     /\ IntOf(req.page) >= 1) =>
        /\ resp.pagination.itemsPerPage = clamp(IntOf(req.limit), 1, 50)
        /\ resp.pagination.currentPage = IntOf(req.page)
        /\ resp.pagination.hasNextPage =
              (IntOf(req.page) * resp.pagination.itemsPerPage
                 < resp.pagination.totalItems)

\* The same for every integer limit other than 0
C2_ClampedUnlessZero ==
    (/\ req.route = "list"
     /\ resp.status = 200
     /\ IsIntLiteral(req.page)
     /\ IsIntLiteral(req.limit)
     /\ IntOf(req.page) >= 1
     /\ IntOf(req.limit) # 0) =>
        /\ resp.pagination.itemsPerPage = clamp(IntOf(req.limit), 1, 50)
        /\ resp.pagination.currentPage = IntOf(req.page)
        /\ resp.pagination.hasNextPage =
              (IntOf(req.page) * resp.pagination.itemsPerPage
                 < resp.pagination.totalItems)

\* The identifiers of a sequence of records, in order
IdsOf(s) == [i \in 1..Len(s) |-> s[i]._id]

\* The least number of pages of the given size that hold total records
PagesFor(total, size) ==
    CHOOSE n \in 0..total : n * size >= total /\ (n = 0 \/ (n - 1) * size < total)

\* C3: a client that has read pages 1..totalPages of GET /api/quotes at one
\* limit, with no write in between, holds exactly totalItems records: every
\* stored record once, in the store's order; and totalPages is
\* ceil(totalItems / itemsPerPage).
C3_PagesCoverStoreOnce ==
    (walk.on /\ walk.done) =>
        /\ Len(walk.acc) = walk.last.totalItems
        /\ walk.last.totalItems = Len(store)
        /\ IdsOf(walk.acc) = IdsOf(store)
        /\ walk.last.totalPages = PagesFor(walk.last.totalItems, walk.last.itemsPerPage)
        /\ walk.next = Max(walk.last.totalPages, 1) + 1

\* A walk at one record per page is done after as many pages as the full
\* collection has records
C3_Witness ==
    /\ walk.on
    /\ walk.done
    /\ walk.last.itemsPerPage = 1
    /\ walk.last.totalPages = MaxStore
    /\ Len(walk.acc) = MaxStore

----------------------------------------------------------------------------
(* Claims about the search, under SpecSearch *)

\* The characters the pattern must carry a backslash in front of
Special == {".", "*", "+", "?", "^", "$", "{", "}", "(", ")", "|", "[", "]", "\\"}

RECURSIVE IsEscaped(_, _)
\* p is s with a backslash in front of each special character, else unchanged
IsEscaped(p, s) ==
    IF s = <<>> THEN p = <<>>
    ELSE IF Head(s) \in Special
         THEN /\ Len(p) >= 2
              /\ p[1] = "\\"
              /\ p[2] = Head(s)
              /\ IsEscaped(Drop(p, 2), Tail(s))
         ELSE /\ Len(p) >= 1
              /\ p[1] = Head(s)
              /\ IsEscaped(Tail(p), Tail(s))

\* text contains term as a substring, letter case ignored
ContainsIgnoreCase(text, term) ==
    \E j \in 0..(Len(text) - Len(term)) :
        \A i \in 1..Len(term) : Lower(text[j + i]) = Lower(term[i])

\* C6: on GET /api/quotes/search the pattern sent to the store is the source
\* with a backslash in front of each of . * + ? ^ $ { } ( ) | [ ] \ and every
\* other character unchanged, and the records returned are exactly those (up
\* to the first 50) whose source contains the input as a literal substring,
\* letter case ignored.
C6_SearchIsLiteral ==
    (req.route = "search" /\ resp.status = 200) =>
        /\ IsEscaped(req.pattern, req.source.s)
        /\ IdsOf(resp.data) =
              IdsOf(Take(SelectSeq(store,
                            LAMBDA d : ContainsIgnoreCase(d.source, req.source.s)), 50))
        /\ resp.count = Len(resp.data)

\* The term ".*" found the one record whose source holds a literal ".*"
C6_Witness ==
    /\ req.route = "search"
    /\ req.source.s = <<".", "*">>
    /\ req.pattern = <<"\\", ".", "\\", "*">>
    /\ resp.status = 200
    /\ Len(resp.data) = 1

----------------------------------------------------------------------------
(* Claims about the daily quote, under SpecDaily *)

\* The daily handler has computed its day of year and offset
DailyComputed == req.route = "daily" /\ req.count > 0

\* C4: two daily requests on the same local date with the same count compute
\* the same dayOfYear and the same offset, at whatever times of that date
\* they are made and whether or not the process was restarted in between.
C4_SameDateSameOffset ==
    (DailyComputed /\ seen.set /\ seen.count = req.count) =>
        /\ req.dayOfYear = seen.dayOfYear
        /\ req.offset = seen.index

\* C5: the dayOfYear computed and reported is the 1-based ordinal of the
\* current local date in its year (at most 365, or 366 in a leap year), and
\* the record fetched is the one at offset dayOfYear mod count, in [0, count).
C5_DayOfYearIsOrdinal ==
    DailyComputed =>
        /\ req.dayOfYear = clock.day
        /\ req.dayOfYear \in 1..DaysInYear(clock.leap)
        /\ req.offset = clock.day % req.count
        /\ req.offset \in 0..(req.count - 1)
        /\ (resp.status = 200 => resp.dayOfYear = clock.day)

\* The same two statements in a zone without daylight saving time
C4_SameDateSameOffsetNoDst ==
    clock.tz = "UTC" => C4_SameDateSameOffset

C5_DayOfYearIsOrdinalNoDst ==
    clock.tz = "UTC" => C5_DayOfYearIsOrdinal

----------------------------------------------------------------------------
(* Claims about rate limiting, under SpecRate *)

\* The response of a limiter: 429 with {success: false, error: <message>},
\* sent without the handler or the store being reached
Is429 ==
    /\ resp.status = 429
    /\ ~resp.success
    /\ resp.error # ""
    /\ resp.by \in {"limiter", "quoteLimiter"}
    /\ Len(calls) = 0

\* C9 as stated: the 31st (and any later) request a client address sends to
\* a quote route within one 1-minute window is answered 429 and does not
\* reach the handler, whatever was requested before.
C9_ThirtyFirstIs429 ==
    (req.route = "random" /\ req.nth > 30) => Is429

\* C9 amended: within one 1-minute window at most 30 requests of one client
\* address reach a quote handler; once 30 have, every further request of that
\* address in the window is answered 429 with {success: false, error} and does
\* not reach the handler; any 429 is of that form; and a request of an address
\* that has had fewer than 30 requests reach the handler in its 1-minute
\* window and fewer than 100 requests in its 15-minute window reaches the
\* handler whatever the other addresses' counts are.
C9_AtMostThirtyServed ==
    /\ \A c \in Clients : sent[c].served <= 30
    /\ (req.route = "random" /\ req.servedBefore >= 30) => Is429
    /\ resp.status = 429 => Is429
    /\ (req.route = "random" /\ req.nth <= 30 /\ req.apiNth <= 100) =>
            (resp.by = "handler" /\ resp.status # 429)

\* The first client's 31st request of a window, 30 having reached the
\* handler, was answered 429 by quoteLimiter
C9_Witness ==
    /\ req.route = "random"
    /\ req.client = "c1"
    /\ req.nth = 31
    /\ req.servedBefore = 30
    /\ resp.status = 429
    /\ resp.by = "quoteLimiter"
    /\ Len(calls) = 0

----------------------------------------------------------------------------
(* The process from startup to exit *)

Signals == {"SIGINT", "SIGTERM"}

InitProc ==
    /\ store = <<>>
    /\ nodeEnv \in NodeEnvs
    /\ clock \in {c \in SomeClocks : c.tz = "UTC"}
    /\ InitRequests
    /\ proc \in {Booting(v) : v \in BOOLEAN}
    /\ loader = NoLoader

NextProc ==
    \/ StartServerless
    \/ StartServer
    \/ \E ok \in BOOLEAN : ConnectSettle(ok)
    \/ \E err \in SomeOutcomes : Invocation(err)
    \/ Alive /\ Finish
    \/ \E sig \in Signals : Signal(sig)
    \/ \E ok \in BOOLEAN : CloseSettle(ok)

\* The driver settles every close it was asked for, and the event loop then
\* runs the continuation of gracefulShutdown
SpecProc ==
    InitProc /\ [][NextProc]_vars /\ WF_vars(\E ok \in BOOLEAN : CloseSettle(ok))

Exited == proc.phase = "exited"

\* The exit is the outcome of a gracefulShutdown call
ExitedBySignal == Exited /\ proc.exitBy \in {"gracefulShutdown", "unhandledRejection"}

\* C11 as stated: every exit caused by a termination signal is preceded by a
\* completed connection close, and a signalled process eventually exits
C11_ClosedBeforeEveryExit ==
    /\ [](ExitedBySignal => proc.closed)
    /\ (proc.signals > 0) ~> Exited

\* C11: an exit with status 0 made by gracefulShutdown is preceded by a
\* completed connection close; when the close is rejected the process ends
\* with a failure status and the close not completed; and once a signal is
\* received the process eventually exits
C11_ClosedBeforeCleanExit ==
    /\ [](Exited /\ proc.exitBy = "gracefulShutdown" =>
             proc.closed /\ proc.exitCode = 0 /\ proc.signals > 0)
    /\ [](Exited /\ proc.exitBy = "unhandledRejection" =>
             ~proc.closed /\ proc.exitCode = 1 /\ proc.signals > 0)
    /\ (proc.signals > 0) ~> Exited

\* A signalled process has closed the connection and exited with status 0
C11_Witness ==
    /\ Exited
    /\ proc.signals > 0
    /\ proc.exitBy = "gracefulShutdown"
    /\ proc.closed

\* C12 as stated: after a failed initial connection a long-running server has
\* terminated and never listens or serves, while a serverless deployment is
\* not terminated by the failure and connects again on its next invocation
C12_FatalUnlessServerless ==
    /\ proc.failed /\ ~proc.vercel =>
           Exited /\ ~proc.listening /\ proc.served = 0
    /\ proc.failed /\ proc.vercel =>
           /\ proc.exitBy # "connectDB"
           /\ proc.servedAfterFail > 0 => proc.attempts > proc.attemptsAtFail

----------------------------------------------------------------------------
(* The seeding script run against the collection the server reads *)

InitSeed ==
    /\ store \in PlainStores
    /\ nodeEnv = "production"
    /\ clock \in {c \in SomeClocks : c.tz = "UTC"}
    /\ InitRest

NextSeed ==
    \/ Finish
    \/ Ready /\ \E rnd \in 0..(RandDenom - 1), err \in SomeOutcomes : RandomStart(rnd, err)
    \/ \E err \in SomeOutcomes : RandomFetch(err)
    \/ Ready /\ \E err \in SomeOutcomes : DailyStart(err)
    \/ \E err \in SomeOutcomes : DailyFetch(err)
    \/ \E file \in QuotesFiles, ok \in BOOLEAN : LoaderStart(file, ok)
    \/ \E answer \in Answers : LoaderAnswer(answer)
    \/ \E ok \in BOOLEAN : LoaderClear(ok)
    \/ \E ok \in BOOLEAN : LoaderInsert(ok)
    \/ \E ok \in BOOLEAN : LoaderEnd(ok)

SpecSeed == InitSeed /\ [][NextSeed]_vars

\* The operator typed y, in either case, and nothing else
Confirms(answer) == answer \in {<<"y">>, <<"Y">>}

\* The collection holds one record per valid element of the file and no other
HoldsFile(s, file) ==
    /\ Len(s) = Cardinality({i \in 1..Len(file) : file[i]})
    /\ \A i \in 1..Len(file) : file[i] => \E k \in 1..Len(s) : s[k].sloka = 10 + i

\* C13: the collection is cleared only after the operator was prompted and
\* answered y; after any other answer the script has exited with the
\* collection as it found it and nothing inserted; the prompt is shown exactly
\* when the collection held records; over an empty collection nothing is
\* deleted and the valid elements of the file are inserted
C13_ClearOnlyOnConfirm ==
    /\ loader.cleared =>
           loader.prompted /\ loader.answered /\ Confirms(loader.answer)
    /\ loader.answered /\ ~Confirms(loader.answer) =>
           /\ loader.pc = "exited"
           /\ loader.exitCode = 0
           /\ ~loader.cleared
           /\ loader.inserted = -1
           /\ store = loader.before
    /\ loader.existingCount >= 0 => (loader.prompted <=> Len(loader.before) > 0)
    /\ loader.existingCount = 0 =>
           /\ ~loader.cleared
           /\ loader.before = <<>>
           /\ loader.inserted >= 0 => HoldsFile(store, loader.file)

\* A confirmed run that cleared a non-empty collection and inserted records
C13_Witness ==
    /\ loader.pc = "exited"
    /\ Len(loader.before) > 0
    /\ loader.cleared
    /\ Confirms(loader.answer)
    /\ loader.inserted > 0

\* C14 as stated: a 200 of GET /api/quote/random or GET /api/quote/daily
\* always carries a record, whatever the seeding script does between the
\* handler's count and its fetch
C14_DataNeverNull ==
    req.route \in {"random", "daily"} /\ resp.status = 200 => resp.data # <<>>

====
